---- MODULE Spec2Model ----
(***************************************************************************)
(* The respect ledger of src/bot.py: the SQLite table `users` behind       *)
(* RespectStorage and the storage methods that read and write it.          *)
(*                                                                         *)
(* Every SQL statement is one atomic step (SQLite runs a statement, and    *)
(* the single-statement transactions of `with self.conn:`, atomically).    *)
(* A storage method that issues several statements is several steps, and   *)
(* between them the statements of other flows working on the same          *)
(* database may run (mode "conc").  In mode "seq" one flow issues the      *)
(* calls one after the other, which is how one event loop that handles     *)
(* one update at a time drives the storage.                                *)
(*                                                                         *)
(* handle_message is modelled the same way: a run of the handler is one    *)
(* step per SQL statement it issues, with the Python code around the       *)
(* statement; it starts from a table earlier runs of the bot left in       *)
(* respect.db.  calculate_level and build_scale are operators, applied to  *)
(* every score up to MaxScore by LevelSpec.                                *)
(***************************************************************************)
EXTENDS Integers, Sequences, FiniteSets, TLC

\* ------------------------------------------------------------ input domains
Flows == {1, 2}
\* the (chat_id, user_id) pairs the calls refer to
Keys == {<<1, 1>>, <<1, 2>>, <<1, 3>>, <<2, 1>>}
\* the pairs the interleaved flows work on
ConcKeys == {<<1, 1>>, <<1, 2>>}
\* usernames as UTF-8 byte strings: "AB" and "a"
Names == {<<65, 66>>, <<97>>}
Dates == {"d1", "d2"}
Deltas == {-3, 1, 12}
\* number of storage calls in one behaviour: one call at a time, interleaved
MaxCalls == 4
MaxConcCalls == 3

NULL == "NULL"

VARIABLES
    users,      \* the table: (chat_id, user_id) -> row, for the rows that exist
    call,       \* per flow: the storage call it is in or has just finished
    ncalls,     \* number of calls started (also the id of the latest call)
    claimLog,   \* per key: the finished claim_bonus calls, <<date, granted>>
    writes,     \* per key: the statements that wrote the row, in order
    mode,       \* "conc": statements of flows interleave; "seq": whole calls
    h,          \* per flow: the handle_message run it is in or has just finished
    nevents,    \* number of updates handed to handle_message
    lvl,        \* scores and what calculate_level and build_scale make of them
    hist,       \* the storage calls as they were entered and as they returned
    mon,        \* the MonitorState object of termux_monitor_client.py
    thr,        \* per thread of the monitoring client: where it is and its locals
    mlog        \* what the poller has done so far: points appended, polls, snapshots

vars == <<users, call, ncalls, claimLog, writes, mode, h, nevents, lvl,
          hist, mon, thr, mlog>>

\* the variables of the storage calls, of the handler and of the leveling functions
callvars == <<call, ncalls, claimLog, writes, hist>>
botvars == <<h, nevents>>
monvars == <<mon, thr, mlog>>

\* ------------------------------------------------------------ pure helpers
\* schema default of column respect
DefaultRespect == 1

\* a level every 11 points
calculate_level_11(respect) == ((respect - 1) \div 11) + 1

calculate_level(respect) == ((respect - 1) \div 10) + 1

\* the string c * n: n times c, nothing when n <= 0 ("#" is the filled block,
\* "_" the empty one)
RECURSIVE Times(_, _)
Times(c, n) == IF n <= 0 THEN <<>> ELSE <<c>> \o Times(c, n - 1)

\* the bar filled by respect mod 10
build_scale_mod(respect) ==
    LET points_in_level == respect % 10
    IN  [respect |-> respect,
         filled |-> Times("#", points_in_level),
         empty |-> Times("_", 10 - points_in_level),
         level |-> calculate_level(respect)]

\* build_scale: "`respect`\n`[filled empty]`\nLevel: *level*", by its parts
build_scale(respect) ==
    LET level == calculate_level(respect)
        points_in_level == (respect - 1) % 10
    IN  [respect |-> respect,
         filled |-> Times("#", points_in_level),
         empty |-> Times("_", 10 - points_in_level),
         level |-> level]

\* SQL scalar MAX(1, respect + ?) without the floor
NewRespectNoFloor(respect, delta) == respect + delta

\* SQL: SET respect = MAX(1, ?), the current value forgotten
NewRespectNoRead(respect, delta) == IF delta > 1 THEN delta ELSE 1

\* SQL scalar MAX(1, respect + ?)
NewRespect(respect, delta) ==
    IF respect + delta > 1 THEN respect + delta ELSE 1

\* UserRespect(user_id, username, respect, level)
UserRespect(user_id, username, respect) ==
    [user_id |-> user_id, username |-> username, respect |-> respect,
     level |-> calculate_level(respect)]

NoUser == [user_id |-> 0, username |-> <<>>, respect |-> 0, level |-> 0]

\* what a storage method hands back: a value, or the ValueError("User not found")
RetNone == [status |-> "ok", granted |-> FALSE, user |-> NoUser, mentions |-> <<>>]
RetNotFound == [status |-> "NotFound", granted |-> FALSE, user |-> NoUser, mentions |-> <<>>]
RetUser(u) == [status |-> "ok", granted |-> FALSE, user |-> u, mentions |-> <<>>]
RetClaim(g, u) == [status |-> "ok", granted |-> g, user |-> u, mentions |-> <<>>]
RetMentions(ms) == [status |-> "ok", granted |-> FALSE, user |-> NoUser, mentions |-> ms]

\* ------------------------------------------------------------ SQL statements
\* INSERT OR REPLACE: the conflicting row is replaced by a fresh one
SqlUpsertReplace(db, k, username) ==
    [j \in DOMAIN db \cup {k} |->
        IF j = k
        THEN [username |-> username, respect |-> DefaultRespect, last_bonus_date |-> NULL]
        ELSE db[j]]

\* INSERT ... ON CONFLICT(chat_id, user_id) DO NOTHING
SqlUpsertIgnore(db, k, username) ==
    [j \in DOMAIN db \cup {k} |->
        IF j \in DOMAIN db THEN db[j]
        ELSE [username |-> username, respect |-> DefaultRespect, last_bonus_date |-> NULL]]

\* INSERT ... VALUES (?, ?, ?, 1) ON CONFLICT(chat_id, user_id) DO UPDATE SET username
SqlUpsert(db, k, username) ==
    [j \in DOMAIN db \cup {k} |->
        IF j # k THEN db[j]
        ELSE IF k \in DOMAIN db
             THEN [db[k] EXCEPT !.username = username]
             ELSE [username |-> username, respect |-> DefaultRespect,
                   last_bonus_date |-> NULL]]

\* get_user: SELECT ... WHERE chat_id=? AND user_id=?, fetchone, raise if None
get_user(db, k) ==
    IF k \in DOMAIN db
    THEN RetUser(UserRespect(k[2], db[k].username, db[k].respect))
    ELSE RetNotFound

\* an UPDATE that creates the missing row
SqlUpdateRespectCreate(db, k, delta) ==
    [j \in DOMAIN db \cup {k} |->
        IF j # k THEN db[j]
        ELSE IF k \in DOMAIN db
             THEN [db[k] EXCEPT !.respect = NewRespect(db[k].respect, delta)]
             ELSE [username |-> <<>>, respect |-> NewRespect(DefaultRespect, delta),
                   last_bonus_date |-> NULL]]

\* the UPDATE with WHERE user_id=? only: the member's rows in every chat
SqlUpdateRespectAnyChat(db, k, delta) ==
    [j \in DOMAIN db |->
        IF j[2] = k[2] /\ k \in DOMAIN db
        THEN [db[j] EXCEPT !.respect = NewRespect(db[j].respect, delta)]
        ELSE db[j]]

\* UPDATE users SET respect = MAX(1, respect + ?) WHERE chat_id=? AND user_id=?
SqlUpdateRespect(db, k, delta) ==
    IF k \in DOMAIN db
    THEN [db EXCEPT ![k].respect = NewRespect(db[k].respect, delta)]
    ELSE db

\* the bonus UPDATE without the date
SqlClaimBonusNoDate(db, k, date_str) ==
    IF k \in DOMAIN db
    THEN [db EXCEPT ![k].respect = db[k].respect + 1]
    ELSE db

\* the bonus UPDATE adding two
SqlClaimBonusTwo(db, k, date_str) ==
    IF k \in DOMAIN db
    THEN [db EXCEPT ![k].respect = db[k].respect + 2,
                    ![k].last_bonus_date = date_str]
    ELSE db

\* UPDATE users SET respect = respect + 1, last_bonus_date=? WHERE chat_id=? AND user_id=?
SqlClaimBonus(db, k, date_str) ==
    IF k \in DOMAIN db
    THEN [db EXCEPT ![k].respect = db[k].respect + 1,
                    ![k].last_bonus_date = date_str]
    ELSE db

\* byte-wise comparison of two TEXT values (collation BINARY): a < b
RECURSIVE BytesLess(_, _)
BytesLess(a, b) ==
    IF a = <<>> THEN b # <<>>
    ELSE IF b = <<>> THEN FALSE
    ELSE IF Head(a) # Head(b) THEN Head(a) < Head(b)
    ELSE BytesLess(Tail(a), Tail(b))

\* WHERE chat_id=? AND user_id!=?
MentionRows(db, chat_id, except_user_id) ==
    {k \in DOMAIN db : k[1] = chat_id /\ k[2] # except_user_id}

\* ORDER BY user_id
ComesFirstById(db, k, j) == k[2] <= j[2]

\* ORDER BY username: row k is delivered no later than row j.  Rows with equal
\* usernames come in the order of the primary-key index scan (user_id).
ComesFirst(db, k, j) ==
    \/ BytesLess(db[k].username, db[j].username)
    \/ db[k].username = db[j].username /\ k[2] <= j[2]

RECURSIVE OrderRows(_, _)
OrderRows(db, S) ==
    IF S = {} THEN <<>>
    ELSE LET first == CHOOSE k \in S : \A j \in S : ComesFirst(db, k, j)
         IN  <<[user_id |-> first[2], username |-> db[first].username]>>
                \o OrderRows(db, S \ {first})

\* list_mentions: one mention "[username](tg://user?id=user_id)" per row
list_mentions(db, chat_id, except_user_id) ==
    OrderRows(db, MentionRows(db, chat_id, except_user_id))


\* ------------------------------------------------------------ flows and calls
IdleCall ==
    [pc |-> "idle", id |-> 0, op |-> "none", key |-> <<0, 0>>,
     uname |-> <<>>, delta |-> 0, date |-> NULL,
     row |-> NULL,       \* claim_bonus: row["last_bonus_date"] as read
     ret |-> RetNone,    \* the value returned, or the error raised
     pre |-> <<>>,       \* the table when the call issued its first statement
     applied |-> 0,      \* the respect the call's own UPDATE was applied to
     intf |-> {}]        \* ids of calls that wrote this call's row meanwhile

Mid(f) == call[f].pc \notin {"idle", "done"}

\* the flows that issue calls, and the keys and the number of their calls
ActiveFlows == IF mode = "seq" THEN {1} ELSE Flows
CallKeys == IF mode = "seq" THEN Keys ELSE ConcKeys
CallChats == {k[1] : k \in CallKeys}
CallUsers == {k[2] : k \in CallKeys}
CallBudget == IF mode = "seq" THEN MaxCalls ELSE MaxConcCalls

\* a flow is free to issue its next storage call
CanStart(f) ==
    /\ ~Mid(f)
    /\ ncalls < CallBudget

NewCall(op, k) ==
    [IdleCall EXCEPT !.id = ncalls + 1, !.op = op, !.key = k, !.pre = users]

\* flow f moves to record c; when its statement wrote row k, the calls of the
\* other flows that are under way on row k note it
Step(f, c, wrote, k) ==
    call' = [g \in Flows |->
                IF g = f THEN c
                ELSE IF wrote /\ Mid(g) /\ call[g].key = k
                     THEN [call[g] EXCEPT !.intf = @ \cup {c.id}]
                     ELSE call[g]]

\* the statement `stmt` of a call wrote row k
Wrote(k, stmt, delta) ==
    writes' = [writes EXCEPT ![k] = Append(@, <<stmt, delta>>)]

\* ensure_user: one INSERT ... ON CONFLICT statement
EnsureUser(f, k, username) ==
    /\ CanStart(f)
    /\ users' = SqlUpsert(users, k, username)
    /\ Step(f, [NewCall("ensure_user", k) EXCEPT
                    !.pc = "done", !.uname = username, !.ret = RetNone], TRUE, k)
    /\ ncalls' = ncalls + 1
    /\ Wrote(k, IF k \in DOMAIN users THEN "set_username" ELSE "insert", 0)
    /\ UNCHANGED <<claimLog, mode>>

\* get_user: one SELECT
GetUser(f, k) ==
    /\ CanStart(f)
    /\ Step(f, [NewCall("get_user", k) EXCEPT
                    !.pc = "done", !.ret = get_user(users, k)], FALSE, k)
    /\ ncalls' = ncalls + 1
    /\ UNCHANGED <<users, claimLog, writes, mode>>

\* update_respect, first statement: the UPDATE
UpdateRespect(f, k, delta) ==
    /\ CanStart(f)
    /\ users' = SqlUpdateRespect(users, k, delta)
    /\ Step(f, [NewCall("update_respect", k) EXCEPT
                    !.pc = "upd_get", !.delta = delta,
                    !.applied = IF k \in DOMAIN users THEN users[k].respect ELSE 0],
            k \in DOMAIN users, k)
    /\ ncalls' = ncalls + 1
    /\ IF k \in DOMAIN users THEN Wrote(k, "set_respect", delta) ELSE UNCHANGED writes
    /\ UNCHANGED <<claimLog, mode>>

\* update_respect, second statement: return self.get_user(...)
UpdateRespectReturn(f) ==
    /\ call[f].pc = "upd_get"
    /\ Step(f, [call[f] EXCEPT !.pc = "done", !.ret = get_user(users, call[f].key)],
            FALSE, call[f].key)
    /\ UNCHANGED <<users, ncalls, claimLog, writes, mode>>

\* the test of line 100 that never finds the bonus taken
AlreadyClaimedNever(row, date_str) == FALSE

\* row["last_bonus_date"] == date_str
AlreadyClaimed(row, date_str) == row = date_str

\* claim_bonus, first statement: SELECT last_bonus_date, then the test on it
ClaimBonus(f, k, date_str) ==
    /\ CanStart(f)
    /\ ncalls' = ncalls + 1
    /\ IF k \notin DOMAIN users
       THEN /\ Step(f, [NewCall("claim_bonus", k) EXCEPT
                           !.pc = "done", !.date = date_str, !.ret = RetNotFound],
                    FALSE, k)
       ELSE /\ Step(f, [NewCall("claim_bonus", k) EXCEPT
                           !.pc = IF AlreadyClaimed(users[k].last_bonus_date, date_str)
                                  THEN "cb_ret_false" ELSE "cb_update",
                           !.date = date_str,
                           !.row = users[k].last_bonus_date],
                    FALSE, k)
    /\ UNCHANGED <<users, claimLog, writes, mode>>

\* claim_bonus, the UPDATE of the not-yet-claimed branch
ClaimBonusUpdate(f) ==
    /\ call[f].pc = "cb_update"
    /\ users' = SqlClaimBonus(users, call[f].key, call[f].date)
    /\ Step(f, [call[f] EXCEPT !.pc = "cb_ret_true",
                               !.applied = users[call[f].key].respect],
            TRUE, call[f].key)
    /\ Wrote(call[f].key, "bonus", 1)
    /\ UNCHANGED <<ncalls, claimLog, mode>>

\* claim_bonus, last statement: return <granted>, self.get_user(...)
ClaimBonusReturn(f) ==
    /\ call[f].pc \in {"cb_ret_true", "cb_ret_false"}
    /\ LET granted == call[f].pc = "cb_ret_true"
           got == get_user(users, call[f].key)
       IN  /\ Step(f, [call[f] EXCEPT
                          !.pc = "done",
                          !.ret = IF got.status = "ok"
                                  THEN RetClaim(granted, got.user) ELSE got],
                   FALSE, call[f].key)
           /\ claimLog' = [claimLog EXCEPT ![call[f].key] =
                              Append(@, <<call[f].date, granted>>)]
    /\ UNCHANGED <<users, ncalls, writes, mode>>

\* list_mentions: one SELECT ... ORDER BY username
ListMentions(f, chat_id, except_user_id) ==
    /\ CanStart(f)
    /\ Step(f, [NewCall("list_mentions", <<chat_id, except_user_id>>) EXCEPT
                    !.pc = "done",
                    !.ret = RetMentions(list_mentions(users, chat_id, except_user_id))],
            FALSE, <<chat_id, except_user_id>>)
    /\ ncalls' = ncalls + 1
    /\ UNCHANGED <<users, claimLog, writes, mode>>

\* ------------------------------------------------------------ leveling
\* scores up to which the leveling functions are applied
MaxScore == 31

NoScale == [respect |-> 0, filled |-> <<>>, empty |-> <<>>, level |-> 0]

NoLevels ==
    [pc |-> "none", a |-> 0, b |-> 0, level_a |-> 0, level_b |-> 0,
     got |-> NoUser, scale |-> NoScale]

\* calculate_level of two scores, build_scale of the first, and the record
\* get_user returns for a row that holds the first
Leveling ==
    /\ lvl.pc = "in"
    /\ lvl' = [lvl EXCEPT
                 !.pc = "out",
                 !.level_a = calculate_level(lvl.a),
                 !.level_b = calculate_level(lvl.b),
                 !.scale = build_scale(lvl.a),
                 !.got = get_user(<<1, 1>> :> [username |-> <<97>>, respect |-> lvl.a,
                                               last_bonus_date |-> NULL],
                                  <<1, 1>>).user]
    /\ UNCHANGED <<users, callvars, mode, botvars, monvars>>

\* ------------------------------------------------------------ handle_message
\* message texts as byte strings
TokAll == <<46, 97, 108, 108>>              \* ".all"
TokBonus == <<46, 98, 111, 110, 117, 115>>  \* ".bonus"
TokPlus == <<43>>                           \* "+"
TokMinus == <<45>>                          \* "-"

\* the characters str.strip() removes (those below 128)
Whitespace == {9, 10, 11, 12, 13, 28, 29, 30, 31, 32}

RECURSIVE LStrip(_)
LStrip(s) == IF s # <<>> /\ Head(s) \in Whitespace THEN LStrip(Tail(s)) ELSE s

RECURSIVE RStrip(_)
RStrip(s) ==
    IF s # <<>> /\ s[Len(s)] \in Whitespace THEN RStrip(SubSeq(s, 1, Len(s) - 1)) ELSE s

\* str.strip()
Strip(s) == RStrip(LStrip(s))

\* str(n) of a natural number
RECURSIVE Str(_)
Str(n) == IF n < 10 THEN <<48 + n>> ELSE Str(n \div 10) \o <<48 + (n % 10)>>

\* s.startswith(p)
StartsWith(s, p) == Len(s) >= Len(p) /\ SubSeq(s, 1, Len(p)) = p

\* the telegram User of a sender: with a username ("a", "b", ...), with only a
\* full name (" A ", " B ", ...), or with neither
TgUser(id, kind) ==
    [id |-> id,
     username |-> IF kind = "username" THEN <<96 + id>> ELSE <<>>,
     full_name |-> IF kind = "full_name" THEN <<32, 64 + id, 32>> ELSE <<32>>]

extract_username(user) ==
    IF user.username # <<>> THEN <<64>> \o user.username
    ELSE LET full_name == Strip(user.full_name)
         IN  IF full_name # <<>> THEN full_name ELSE Str(user.id)

\* the chat types handle_message goes on with
GroupChats == {"group", "supergroup"}

\* commands recognised by their first characters
CommandPrefix(text) ==
    IF StartsWith(text, TokAll) THEN "all"
    ELSE IF StartsWith(text, TokBonus) THEN "bonus"
    ELSE IF StartsWith(text, TokPlus) \/ StartsWith(text, TokMinus) THEN "respect"
    ELSE "none"

\* the branch of handle_message a stripped text takes
Command(text) ==
    IF text = TokAll THEN "all"
    ELSE IF text = TokBonus THEN "bonus"
    ELSE IF text \in {TokPlus, TokMinus} THEN "respect"
    ELSE "none"

\* every reply has a target
ReplyMissingNever(reply) == FALSE

\* not message.reply_to_message or not message.reply_to_message.from_user
\* (reply = 0: no such message or no sender; otherwise the sender's id)
ReplyMissing(reply) == reply = 0

\* nobody is their own target
SelfTargetNever(target_id, from_id) == FALSE

\* target_user.id == message.from_user.id
SelfTarget(target_id, from_id) == target_id = from_id

\* delta = 1 whatever the text
DeltaPlus(text) == 1

\* delta = 1 if text == "+" else -1
Delta(text) == IF text = TokPlus THEN 1 ELSE -1

\* a reply_text call: the phrase and what is formatted into it
Reply(key, user, level, scale, mentions) ==
    [key |-> key, user |-> user, level |-> level, scale |-> scale, mentions |-> mentions]

\* updated.level > prev.level
LevelUp(updated, prev) == updated.level > prev.level

\* the replies to "+" and "-"
RespectReplies(delta, target_author, prev, updated) ==
    <<Reply(IF delta > 0 THEN "respect_given" ELSE "respect_taken",
            target_author, 0, build_scale(updated.respect), <<>>)>>
    \o (IF LevelUp(updated, prev)
        THEN <<Reply("level_up", target_author, updated.level, NoScale, <<>>)>>
        ELSE <<>>)

\* the replies to ".bonus", the previous level being the level itself
BonusRepliesSameLevel(claimed, author, user_info) ==
    IF claimed
    THEN <<Reply("bonus_claimed", author, 0, build_scale(user_info.respect), <<>>)>>
         \o (IF user_info.level > calculate_level(user_info.respect)
             THEN <<Reply("level_up", author, user_info.level, NoScale, <<>>)>>
             ELSE <<>>)
    ELSE <<Reply("bonus_cooldown", author, 0, build_scale(user_info.respect), <<>>)>>

\* the replies to ".bonus", the level compared in the cooldown branch too
BonusRepliesBothBranches(claimed, author, user_info) ==
    <<Reply(IF claimed THEN "bonus_claimed" ELSE "bonus_cooldown",
            author, 0, build_scale(user_info.respect), <<>>)>>
    \o (IF user_info.level > calculate_level(user_info.respect - 1)
        THEN <<Reply("level_up", author, user_info.level, NoScale, <<>>)>>
        ELSE <<>>)

\* the replies to ".bonus"
BonusReplies(claimed, author, user_info) ==
    IF claimed
    THEN <<Reply("bonus_claimed", author, 0, build_scale(user_info.respect), <<>>)>>
         \o (LET prev_level == calculate_level(user_info.respect - 1)
             IN  IF user_info.level > prev_level
                 THEN <<Reply("level_up", author, user_info.level, NoScale, <<>>)>>
                 ELSE <<>>)
    ELSE <<Reply("bonus_cooldown", author, 0, build_scale(user_info.respect), <<>>)>>

\* the replies to ".all"
AllReplies(mentions) ==
    IF mentions = <<>>
    THEN <<Reply("all_empty", <<>>, 0, NoScale, <<>>)>>
    ELSE <<Reply("all_text", <<>>, 0, NoScale, mentions)>>

\* ---- the updates handed to handle_message
\* number of updates in one behaviour: one at a time, interleaved
MaxEvents == 1
MaxConcEvents == 2

BotChats == {1}
BotUsers == {1, 2}
EvChatTypes == IF mode = "seq" THEN {"group", "supergroup", "private"} ELSE {"group"}
EvKinds == IF mode = "seq" THEN {"username", "full_name", "none"} ELSE {"username"}
\* message.text: none or "", " ", the four tokens, " +\n", "+1", "x-"
EvTexts ==
    IF mode = "seq"
    THEN {<<>>, <<32>>, TokAll, TokBonus, TokPlus, TokMinus,
          <<32, 43, 10>>, <<43, 49>>, <<120, 45>>}
    ELSE {TokAll, TokBonus, TokPlus, TokMinus}
\* sender of the message replied to: 0 when there is none
EvReplies == IF mode = "seq" THEN {0} \cup BotUsers ELSE BotUsers
EvDates == IF mode = "seq" THEN Dates ELSE {"d2"}
EventBudget == IF mode = "seq" THEN MaxEvents ELSE MaxConcEvents

\* a row as earlier runs of the bot left it in respect.db
StoredRow(respect, last_bonus_date) ==
    [username |-> <<64, 120>>, respect |-> respect, last_bonus_date |-> last_bonus_date]

StoredRows ==
    {StoredRow(1, NULL), StoredRow(10, "d1"), StoredRow(11, "d1")}

\* the tables handle_message starts from: each member of the chat absent or
\* stored, and a row of the first member in another chat
StoredTables ==
    {(<<2, 1>> :> StoredRow(13, NULL)) @@ t :
        t \in UNION {[{<<c, u>> : c \in BotChats, u \in S} -> StoredRows] :
                        S \in SUBSET BotUsers}}

\* the tables the interleaved runs start from: every member stored, with a
\* respect next to the step from level 1 to level 2
ConcStoredTables ==
    {t \in StoredTables :
        \A c \in BotChats, u \in BotUsers :
            <<c, u>> \in DOMAIN t /\ t[<<c, u>>].respect \in {10, 11}}

\* ---- one run of handle_message
IdleRun ==
    [pc |-> "idle", id |-> 0,
     chat_type |-> "none", chat_id |-> 0, from_id |-> 0,
     seen |-> <<>>,             \* the sender's name in the update
     raw |-> <<>>,              \* message.text
     reply |-> 0,               \* id of the sender of message.reply_to_message
     author |-> <<>>, text |-> <<>>, target_author |-> <<>>,
     today |-> NULL,
     row |-> NULL,              \* claim_bonus: row["last_bonus_date"] as read
     claimed |-> FALSE,
     prev |-> NoUser, updated |-> NoUser,
     resp |-> <<>>,             \* the reply_text calls made, in order
     pre |-> <<>>,              \* the table when the update arrived
     ensured |-> <<>>,          \* the table right after ensure_user of the sender
     before |-> 0,              \* the respect the run's own UPDATE was applied to
     after |-> 0,               \* the respect right after the run's own UPDATE
     nmut |-> 0]                \* number of respect UPDATEs the run made

CanReceive(f) ==
    /\ f \in ActiveFlows
    /\ h[f].pc \in {"idle", "done", "raised"}
    /\ nevents < EventBudget

At(f, pc) == f \in ActiveFlows /\ h[f].pc = pc

Finish(run, resp) == [run EXCEPT !.pc = "done", !.resp = resp]

\* lines 175-176: no message, no sender or no chat
H_Drop(f) ==
    /\ CanReceive(f)
    /\ h' = [h EXCEPT ![f] = [IdleRun EXCEPT !.pc = "done", !.id = nevents + 1,
                                             !.pre = users, !.ensured = users]]
    /\ nevents' = nevents + 1
    /\ UNCHANGED <<users, callvars, mode, lvl, monvars>>

\* lines 178-223 up to the next SQL statement: the chat type, ensure_user of
\* the sender, the stripped text and the branch it selects
H_Receive(f, chat_type, chat_id, from_id, kind, raw, reply) ==
    /\ CanReceive(f)
    /\ Command(Strip(raw)) # "respect" => reply = 0
    /\ Command(Strip(raw)) = "respect" => reply \in EvReplies
    /\ LET author == extract_username(TgUser(from_id, kind))
           new == [IdleRun EXCEPT !.id = nevents + 1, !.chat_type = chat_type,
                                  !.chat_id = chat_id, !.from_id = from_id,
                                  !.seen = author, !.raw = raw, !.reply = reply,
                                  !.pre = users, !.ensured = users]
       IN  IF chat_type \notin GroupChats
           THEN /\ h' = [h EXCEPT ![f] = Finish(new, <<>>)]
                /\ users' = users
           ELSE LET text == Strip(raw)
                    db == SqlUpsert(users, <<chat_id, from_id>>, author)
                    run == [new EXCEPT !.author = author, !.text = text, !.ensured = db]
                IN  /\ users' = db
                    /\ h' = [h EXCEPT ![f] =
                          IF text = <<>> THEN Finish(run, <<>>)
                          ELSE IF Command(text) = "all" THEN [run EXCEPT !.pc = "all"]
                          ELSE IF Command(text) = "bonus" THEN [run EXCEPT !.pc = "claim"]
                          ELSE IF Command(text) = "respect"
                          THEN IF ReplyMissing(reply)
                               THEN Finish(run, <<Reply("reply_required", <<>>, 0,
                                                        NoScale, <<>>)>>)
                               ELSE [run EXCEPT
                                       !.pc = "target",
                                       !.target_author =
                                           extract_username(TgUser(reply, kind))]
                          ELSE Finish(run, <<>>)]
    /\ nevents' = nevents + 1
    /\ UNCHANGED <<callvars, mode, lvl, monvars>>

\* lines 192-201: list_mentions and the reply
H_All(f) ==
    /\ At(f, "all")
    /\ LET mentions == list_mentions(users, h[f].chat_id, h[f].from_id)
       IN  h' = [h EXCEPT ![f] = Finish(h[f], AllReplies(mentions))]
    /\ UNCHANGED <<users, nevents, callvars, mode, lvl, monvars>>

\* lines 204-205 and 93-101: today, the SELECT of claim_bonus and its test
H_ClaimSelect(f, today) ==
    /\ At(f, "claim")
    /\ LET k == <<h[f].chat_id, h[f].from_id>>
       IN  h' = [h EXCEPT ![f] =
                 IF k \notin DOMAIN users THEN [h[f] EXCEPT !.pc = "raised"]
                 ELSE [h[f] EXCEPT
                         !.today = today,
                         !.row = users[k].last_bonus_date,
                         !.pc = IF AlreadyClaimed(users[k].last_bonus_date, today)
                                THEN "claim_return" ELSE "claim_update"]]
    /\ UNCHANGED <<users, nevents, callvars, mode, lvl, monvars>>

\* lines 103-107: the UPDATE of claim_bonus
H_ClaimUpdate(f) ==
    /\ At(f, "claim_update")
    /\ LET k == <<h[f].chat_id, h[f].from_id>>
           db == SqlClaimBonus(users, k, h[f].today)
       IN  /\ users' = db
           /\ h' = [h EXCEPT ![f] =
                     [h[f] EXCEPT !.pc = "claim_return", !.claimed = TRUE,
                                  !.before = IF k \in DOMAIN users
                                             THEN users[k].respect ELSE 0,
                                  !.after = IF k \in DOMAIN db THEN db[k].respect ELSE 0,
                                  !.nmut = @ + 1]]
    /\ UNCHANGED <<nevents, callvars, mode, lvl, monvars>>

\* lines 101/108 and 206-218: get_user of claim_bonus and the replies
H_ClaimReturn(f) ==
    /\ At(f, "claim_return")
    /\ LET got == get_user(users, <<h[f].chat_id, h[f].from_id>>)
       IN  h' = [h EXCEPT ![f] =
                 IF got.status # "ok" THEN [h[f] EXCEPT !.pc = "raised"]
                 ELSE Finish([h[f] EXCEPT !.updated = got.user],
                             BonusReplies(h[f].claimed, h[f].author, got.user))]
    /\ UNCHANGED <<users, nevents, callvars, mode, lvl, monvars>>

\* lines 225-233: ensure_user of the target and the self-target test
H_EnsureTarget(f) ==
    /\ At(f, "target")
    /\ users' = SqlUpsert(users, <<h[f].chat_id, h[f].reply>>, h[f].target_author)
    /\ h' = [h EXCEPT ![f] =
              IF SelfTarget(h[f].reply, h[f].from_id)
              THEN Finish(h[f], <<Reply("respect_self", <<>>, 0, NoScale, <<>>)>>)
              ELSE [h[f] EXCEPT !.pc = "prev"]]
    /\ UNCHANGED <<nevents, callvars, mode, lvl, monvars>>

\* line 236: prev = storage.get_user(...)
H_GetPrev(f) ==
    /\ At(f, "prev")
    /\ LET got == get_user(users, <<h[f].chat_id, h[f].reply>>)
       IN  h' = [h EXCEPT ![f] =
                 IF got.status # "ok" THEN [h[f] EXCEPT !.pc = "raised"]
                 ELSE [h[f] EXCEPT !.pc = "update", !.prev = got.user]]
    /\ UNCHANGED <<users, nevents, callvars, mode, lvl, monvars>>

\* lines 235, 237 and 86-89: the UPDATE of update_respect
H_Update(f) ==
    /\ At(f, "update")
    /\ LET k == <<h[f].chat_id, h[f].reply>>
           db == SqlUpdateRespect(users, k, Delta(h[f].text))
       IN  /\ users' = db
           /\ h' = [h EXCEPT ![f] =
                     [h[f] EXCEPT !.pc = "reread",
                                  !.before = IF k \in DOMAIN users
                                             THEN users[k].respect ELSE 0,
                                  !.after = IF k \in DOMAIN db THEN db[k].respect ELSE 0,
                                  !.nmut = @ + 1]]
    /\ UNCHANGED <<nevents, callvars, mode, lvl, monvars>>

\* lines 90 and 239-249: get_user of update_respect and the replies
H_UpdateReturn(f) ==
    /\ At(f, "reread")
    /\ LET got == get_user(users, <<h[f].chat_id, h[f].reply>>)
       IN  h' = [h EXCEPT ![f] =
                 IF got.status # "ok" THEN [h[f] EXCEPT !.pc = "raised"]
                 ELSE Finish([h[f] EXCEPT !.updated = got.user],
                             RespectReplies(Delta(h[f].text), h[f].target_author,
                                            h[f].prev, got.user))]
    /\ UNCHANGED <<users, nevents, callvars, mode, lvl, monvars>>

\* ------------------------------------------------------------ the call history
\* an entry of hist: call c of a flow was entered ("inv") or returned ("ret")
HistEntry(ev, c) ==
    [ev |-> ev, id |-> c.id, op |-> c.op, key |-> c.key, uname |-> c.uname,
     delta |-> c.delta, date |-> c.date,
     ret |-> IF ev = "ret" THEN c.ret ELSE RetNone]

\* the methods that write the table
MutationOps == {"ensure_user", "update_respect", "claim_bonus"}

\* the step of flow f, written to hist when it belongs to a call of a method
\* that writes: the call entered, the call returned, or both when the call is a
\* single statement
LogCalls(f) ==
    hist' = IF call'[f].op \notin MutationOps THEN hist
            ELSE hist
                 \o (IF call'[f].id # call[f].id
                     THEN <<HistEntry("inv", call'[f])>> ELSE <<>>)
                 \o (IF call'[f].pc = "done"
                     THEN <<HistEntry("ret", call'[f])>> ELSE <<>>)

\* ------------------------------------------------------------ MonitorState
\* the poller thread of main and the request threads of ThreadingHTTPServer
ReqThreads == {"req1", "req2"}
Threads == {"poll"} \cup ReqThreads

\* number of polls and of snapshots in one behaviour, largest history_size
MaxPolls == 3
MaxSnaps == 2
MaxHistory == 2

\* JSON values of the payload: a key that is absent, a number, a string that
\* is no number, an object with the key used_percent
Absent == [t |-> "absent", v |-> 0]
Num(v) == [t |-> "num", v |-> v]
Text == [t |-> "str", v |-> 0]
Obj(v) == [t |-> "obj", v |-> v]

\* the payloads of /status: {}, a full status, a cpu_percent that is no number,
\* a memory that is no object
Payloads ==
    {[cpu_percent |-> Absent, memory |-> Absent, disk_root |-> Absent],
     [cpu_percent |-> Num(7), memory |-> Obj(30), disk_root |-> Obj(50)],
     [cpu_percent |-> Text, memory |-> Obj(30), disk_root |-> Absent],
     [cpu_percent |-> Num(7), memory |-> Num(30), disk_root |-> Absent]}

\* last_status: None, or the payload of poll n
NoStatus ==
    [n |-> 0, none |-> TRUE, cpu_percent |-> Absent, memory |-> Absent,
     disk_root |-> Absent]

Status(n, payload) ==
    [n |-> n, none |-> FALSE, cpu_percent |-> payload.cpu_percent,
     memory |-> payload.memory, disk_root |-> payload.disk_root]

\* bool(status) of a dict or None
Truthy(status) ==
    /\ ~status.none
    /\ \/ status.cpu_percent # Absent
       \/ status.memory # Absent
       \/ status.disk_root # Absent

\* float(x) in tenths; "raise" for what float() or .get() rejects
ToFloat(x) == IF x.t = "num" THEN [ok |-> TRUE, f |-> 10 * x.v] ELSE [ok |-> FALSE, f |-> 0]

\* float(status.get(key, 0))
GetFloat(x) == IF x.t = "absent" THEN ToFloat(Num(0)) ELSE ToFloat(x)

\* float(status.get(key, {}).get("used_percent", 0))
GetUsedPercent(x) ==
    IF x.t = "absent" THEN ToFloat(Num(0))
    ELSE IF x.t = "obj" THEN ToFloat(Num(x.v))
    ELSE [ok |-> FALSE, f |-> 0]

NoPoint ==
    [n |-> 0, ok |-> FALSE, cpu_percent |-> 0, mem_percent |-> 0, disk_percent |-> 0]

\* lines 49-54: the point of a status, or the exception of a conversion
PointOf(status) ==
    LET cpu == GetFloat(status.cpu_percent)
        mem == GetUsedPercent(status.memory)
        disk == GetUsedPercent(status.disk_root)
    IN  IF cpu.ok /\ mem.ok /\ disk.ok
        THEN [n |-> status.n, ok |-> TRUE, cpu_percent |-> cpu.f,
              mem_percent |-> mem.f, disk_percent |-> disk.f]
        ELSE NoPoint

\* deque.append that drops the new point when the deque is full
DequeAppendKeepOld(q, maxlen, x) == IF Len(q) >= maxlen THEN q ELSE Append(q, x)

\* deque(maxlen=...).append(x)
DequeAppend(q, maxlen, x) ==
    IF maxlen = 0 THEN q
    ELSE IF Len(q) = maxlen THEN Append(Tail(q), x)
    ELSE Append(q, x)

\* last_error: the text set by __init__, "", or the message of the failed poll n
Waiting == [kind |-> "waiting", n |-> 0]
NoError == [kind |-> "empty", n |-> 0]
ErrorOf(n) == [kind |-> "error", n |-> n]

\* MonitorState.__init__
NewMonitor(history_size) ==
    [last_error |-> Waiting, last_status |-> NoStatus, history |-> <<>>,
     maxlen |-> history_size, lock |-> "free"]

NoMonitor == NewMonitor(0)

NoSnapshot == [taken |-> FALSE, last_error |-> Waiting, latest |-> NoStatus, history |-> <<>>]

IdleThread ==
    [pc |-> "idle", status |-> NoStatus, point |-> NoPoint, error_message |-> Waiting,
     latest |-> NoStatus, last_error |-> Waiting, snap |-> NoSnapshot]

\* polls made, snapshots begun, every point appended to history in order, and
\* per poll the last_error its update replaced
NoPolls == [polls |-> 0, snaps |-> 0, arrived |-> <<>>, cleared |-> <<>>]

\* a lock that is always free
LockFreeAlways(lock) == TRUE

\* threading.Lock: free to acquire
LockFree(lock) == lock = "free"

Goes(t, frame) == thr' = [thr EXCEPT ![t] = frame]

\* lines 105-108: the request returns a payload
P_Fetch(payload) ==
    /\ thr["poll"].pc = "idle"
    /\ mlog.polls < MaxPolls
    /\ mlog' = [mlog EXCEPT !.polls = @ + 1]
    /\ Goes("poll", [IdleThread EXCEPT !.pc = "point",
                                       !.status = Status(mlog.polls + 1, payload)])
    /\ UNCHANGED mon

\* lines 105-108, 110-113: the request or the JSON decoding fails
P_Fail ==
    /\ thr["poll"].pc = "idle"
    /\ mlog.polls < MaxPolls
    /\ mlog' = [mlog EXCEPT !.polls = @ + 1]
    /\ Goes("poll", [IdleThread EXCEPT !.pc = "err_lock",
                                       !.error_message = ErrorOf(mlog.polls + 1)])
    /\ UNCHANGED mon

\* lines 48-54: update builds the point; an exception goes to line 112
U_Point ==
    /\ thr["poll"].pc = "point"
    /\ LET point == PointOf(thr["poll"].status)
       IN  Goes("poll", IF point.ok
                        THEN [thr["poll"] EXCEPT !.pc = "upd_lock", !.point = point]
                        ELSE [IdleThread EXCEPT
                                !.pc = "err_lock",
                                !.error_message = ErrorOf(thr["poll"].status.n)])
    /\ UNCHANGED <<mon, mlog>>

\* line 55: with self._lock
U_Lock ==
    /\ thr["poll"].pc = "upd_lock"
    /\ LockFree(mon.lock)
    /\ mon' = [mon EXCEPT !.lock = "poll"]
    /\ Goes("poll", [thr["poll"] EXCEPT !.pc = "upd_status"])
    /\ UNCHANGED mlog

\* line 56: self.last_status = status
U_Status ==
    /\ thr["poll"].pc = "upd_status"
    /\ mon' = [mon EXCEPT !.last_status = thr["poll"].status]
    /\ Goes("poll", [thr["poll"] EXCEPT !.pc = "upd_error"])
    /\ UNCHANGED mlog

\* line 57: self.last_error = ""
U_Error ==
    /\ thr["poll"].pc = "upd_error"
    /\ mon' = [mon EXCEPT !.last_error = NoError]
    /\ mlog' = [mlog EXCEPT !.cleared = Append(@, <<thr["poll"].status.n, mon.last_error>>)]
    /\ Goes("poll", [thr["poll"] EXCEPT !.pc = "upd_append"])

\* line 58: self.history.append(point), and the lock is released
U_Append ==
    /\ thr["poll"].pc = "upd_append"
    /\ mon' = [mon EXCEPT
                 !.history = DequeAppend(@, mon.maxlen, thr["poll"].point),
                 !.lock = IF @ = "poll" THEN "free" ELSE @]
    /\ mlog' = [mlog EXCEPT !.arrived = Append(@, thr["poll"].point)]
    /\ Goes("poll", [thr["poll"] EXCEPT !.pc = "idle"])

\* line 61: with self._lock
E_Lock ==
    /\ thr["poll"].pc = "err_lock"
    /\ LockFree(mon.lock)
    /\ mon' = [mon EXCEPT !.lock = "poll"]
    /\ Goes("poll", [thr["poll"] EXCEPT !.pc = "err_set"])
    /\ UNCHANGED mlog

\* line 62: self.last_error = error_message, and the lock is released
E_Set ==
    /\ thr["poll"].pc = "err_set"
    /\ mon' = [mon EXCEPT !.last_error = thr["poll"].error_message,
                          !.lock = IF @ = "poll" THEN "free" ELSE @]
    /\ Goes("poll", [thr["poll"] EXCEPT !.pc = "idle"])
    /\ UNCHANGED mlog

\* lines 74, 36: a request thread enters snapshot
S_Lock(t) ==
    /\ thr[t].pc \in {"idle", "done"}
    /\ mlog.snaps < MaxSnaps
    /\ LockFree(mon.lock)
    /\ mon' = [mon EXCEPT !.lock = t]
    /\ mlog' = [mlog EXCEPT !.snaps = @ + 1]
    /\ Goes(t, [IdleThread EXCEPT !.pc = "snap_latest"])

\* line 37: latest = self.last_status or {}
S_Latest(t) ==
    /\ thr[t].pc = "snap_latest"
    /\ Goes(t, [thr[t] EXCEPT
                  !.pc = "snap_error",
                  !.latest = IF Truthy(mon.last_status) THEN mon.last_status
                             ELSE [NoStatus EXCEPT !.none = FALSE]])
    /\ UNCHANGED <<mon, mlog>>

\* line 41: "last_error": self.last_error
S_LastError(t) ==
    /\ thr[t].pc = "snap_error"
    /\ Goes(t, [thr[t] EXCEPT !.pc = "snap_history", !.last_error = mon.last_error])
    /\ UNCHANGED <<mon, mlog>>

\* lines 43-45: "history": list(self.history), the dict is returned and the
\* lock is released
S_History(t) ==
    /\ thr[t].pc = "snap_history"
    /\ mon' = [mon EXCEPT !.lock = IF @ = t THEN "free" ELSE @]
    /\ Goes(t, [thr[t] EXCEPT
                  !.pc = "done",
                  !.snap = [taken |-> TRUE, last_error |-> thr[t].last_error,
                            latest |-> thr[t].latest, history |-> mon.history]])
    /\ UNCHANGED mlog

\* ------------------------------------------------------------ specifications
\* no storage call yet
InitCalls ==
    /\ call = [f \in Flows |-> IdleCall]
    /\ ncalls = 0
    /\ claimLog = [k \in Keys |-> <<>>]
    /\ writes = [k \in Keys |-> <<>>]
    /\ hist = <<>>

\* no monitoring client
InitNoMonitor ==
    /\ mon = NoMonitor
    /\ thr = [t \in Threads |-> IdleThread]
    /\ mlog = NoPolls

InitStore ==
    /\ users = << >>
    /\ InitCalls
    /\ InitNoMonitor
    /\ h = [f \in Flows |-> IdleRun]
    /\ nevents = 0
    /\ lvl = NoLevels

Init == InitStore /\ mode = "conc"

InitSeq == InitStore /\ mode = "seq"

Next ==
    \/ \E f \in ActiveFlows, k \in CallKeys, n \in Names :
          EnsureUser(f, k, n) /\ UNCHANGED <<botvars, lvl, hist, monvars>>
    \/ \E f \in ActiveFlows, k \in CallKeys :
          GetUser(f, k) /\ UNCHANGED <<botvars, lvl, hist, monvars>>
    \/ \E f \in ActiveFlows, k \in CallKeys, d \in Deltas :
          UpdateRespect(f, k, d) /\ UNCHANGED <<botvars, lvl, hist, monvars>>
    \/ \E f \in ActiveFlows :
          UpdateRespectReturn(f) /\ UNCHANGED <<botvars, lvl, hist, monvars>>
    \/ \E f \in ActiveFlows, k \in CallKeys, d \in Dates :
          ClaimBonus(f, k, d) /\ UNCHANGED <<botvars, lvl, hist, monvars>>
    \/ \E f \in ActiveFlows :
          ClaimBonusUpdate(f) /\ UNCHANGED <<botvars, lvl, hist, monvars>>
    \/ \E f \in ActiveFlows :
          ClaimBonusReturn(f) /\ UNCHANGED <<botvars, lvl, hist, monvars>>
    \/ \E f \in ActiveFlows, c \in CallChats, x \in CallUsers :
          ListMentions(f, c, x) /\ UNCHANGED <<botvars, lvl, hist, monvars>>

\* flows whose statements interleave
Spec == Init /\ [][Next]_vars

\* one flow, one call at a time
SeqSpec == InitSeq /\ [][Next]_vars

\* the storage calls of Next with every entry and return written to hist
NextLogged ==
    \/ \E f \in ActiveFlows, k \in CallKeys, n \in Names :
          EnsureUser(f, k, n) /\ LogCalls(f) /\ UNCHANGED <<botvars, lvl, monvars>>
    \/ \E f \in ActiveFlows, k \in CallKeys :
          GetUser(f, k) /\ LogCalls(f) /\ UNCHANGED <<botvars, lvl, monvars>>
    \/ \E f \in ActiveFlows, k \in CallKeys, d \in Deltas :
          UpdateRespect(f, k, d) /\ LogCalls(f) /\ UNCHANGED <<botvars, lvl, monvars>>
    \/ \E f \in ActiveFlows :
          UpdateRespectReturn(f) /\ LogCalls(f) /\ UNCHANGED <<botvars, lvl, monvars>>
    \/ \E f \in ActiveFlows, k \in CallKeys, d \in Dates :
          ClaimBonus(f, k, d) /\ LogCalls(f) /\ UNCHANGED <<botvars, lvl, monvars>>
    \/ \E f \in ActiveFlows :
          ClaimBonusUpdate(f) /\ LogCalls(f) /\ UNCHANGED <<botvars, lvl, monvars>>
    \/ \E f \in ActiveFlows :
          ClaimBonusReturn(f) /\ LogCalls(f) /\ UNCHANGED <<botvars, lvl, monvars>>
    \/ \E f \in ActiveFlows, c \in CallChats, x \in CallUsers :
          ListMentions(f, c, x) /\ LogCalls(f) /\ UNCHANGED <<botvars, lvl, monvars>>

\* flows whose statements interleave, with the history of their calls
LoggedSpec == Init /\ [][NextLogged]_vars

\* the monitoring client after main has built its MonitorState
InitMonitor ==
    /\ users = << >>
    /\ InitCalls
    /\ h = [f \in Flows |-> IdleRun]
    /\ nevents = 0
    /\ lvl = NoLevels
    /\ mode = "seq"
    /\ \E history_size \in 1..MaxHistory : mon = NewMonitor(history_size)
    /\ thr = [t \in Threads |-> IdleThread]
    /\ mlog = NoPolls

NextMonitor ==
    \/ \E payload \in Payloads : P_Fetch(payload) /\ UNCHANGED <<users, callvars, mode, botvars, lvl>>
    \/ P_Fail /\ UNCHANGED <<users, callvars, mode, botvars, lvl>>
    \/ U_Point /\ UNCHANGED <<users, callvars, mode, botvars, lvl>>
    \/ U_Lock /\ UNCHANGED <<users, callvars, mode, botvars, lvl>>
    \/ U_Status /\ UNCHANGED <<users, callvars, mode, botvars, lvl>>
    \/ U_Error /\ UNCHANGED <<users, callvars, mode, botvars, lvl>>
    \/ U_Append /\ UNCHANGED <<users, callvars, mode, botvars, lvl>>
    \/ E_Lock /\ UNCHANGED <<users, callvars, mode, botvars, lvl>>
    \/ E_Set /\ UNCHANGED <<users, callvars, mode, botvars, lvl>>
    \/ \E t \in ReqThreads : S_Lock(t) /\ UNCHANGED <<users, callvars, mode, botvars, lvl>>
    \/ \E t \in ReqThreads : S_Latest(t) /\ UNCHANGED <<users, callvars, mode, botvars, lvl>>
    \/ \E t \in ReqThreads : S_LastError(t) /\ UNCHANGED <<users, callvars, mode, botvars, lvl>>
    \/ \E t \in ReqThreads : S_History(t) /\ UNCHANGED <<users, callvars, mode, botvars, lvl>>

\* the poller and the request threads, statement by statement
MonitorSpec == InitMonitor /\ [][NextMonitor]_vars

\* the leveling functions on every pair of scores up to MaxScore
InitLevel ==
    /\ users = << >>
    /\ InitCalls
    /\ h = [f \in Flows |-> IdleRun]
    /\ nevents = 0
    /\ mode = "seq"
    /\ InitNoMonitor
    /\ \E a, b \in 1..MaxScore : lvl = [NoLevels EXCEPT !.pc = "in", !.a = a, !.b = b]

NextLevel == Leveling

LevelSpec == InitLevel /\ [][NextLevel]_vars

\* handle_message from a stored table
InitBot ==
    /\ users \in (IF mode = "seq" THEN StoredTables ELSE ConcStoredTables)
    /\ InitCalls
    /\ h = [f \in Flows |-> IdleRun]
    /\ nevents = 0
    /\ lvl = NoLevels
    /\ InitNoMonitor

NextBot ==
    \/ \E f \in ActiveFlows : H_Drop(f)
    \/ \E f \in ActiveFlows, t \in EvChatTypes, c \in BotChats, u \in BotUsers,
          kind \in EvKinds, raw \in EvTexts, reply \in {0} \cup EvReplies :
          H_Receive(f, t, c, u, kind, raw, reply)
    \/ \E f \in ActiveFlows : H_All(f)
    \/ \E f \in ActiveFlows, today \in EvDates : H_ClaimSelect(f, today)
    \/ \E f \in ActiveFlows : H_ClaimUpdate(f)
    \/ \E f \in ActiveFlows : H_ClaimReturn(f)
    \/ \E f \in ActiveFlows : H_EnsureTarget(f)
    \/ \E f \in ActiveFlows : H_GetPrev(f)
    \/ \E f \in ActiveFlows : H_Update(f)
    \/ \E f \in ActiveFlows : H_UpdateReturn(f)

\* one update at a time, each handled to its end
InitBotSeq == mode = "seq" /\ InitBot

BotSeqSpec == InitBotSeq /\ [][NextBot]_vars

\* two updates handled at once, their SQL statements interleaved
InitBotConc == mode = "conc" /\ InitBot

BotSpec == InitBotConc /\ [][NextBot]_vars

\* ------------------------------------------------------------ properties
Done(f) == call[f].pc = "done"

\* C1: every row that exists has respect >= 1, after any calls of ensure_user,
\* update_respect (any delta) and claim_bonus on any keys, from the empty table.
C1_ScoreAtLeastOne ==
    \A k \in DOMAIN users : users[k].respect >= 1

\* an update_respect whose delta would take the row below 1 has run
C1_Witness ==
    \E f \in Flows :
        /\ call[f].op = "update_respect" /\ Done(f)
        /\ call[f].applied >= 1
        /\ call[f].applied + call[f].delta < 1
        /\ call[f].key \in DOMAIN users

\* the writes of row k: its INSERT, then n times update_respect(+1), nothing else
OnlyPlusOne(k, n) ==
    /\ Len(writes[k]) = n + 1
    /\ writes[k][1] = <<"insert", 0>>
    /\ \A i \in 2..(n + 1) : writes[k][i] = <<"set_respect", 1>>

\* no update_respect call on row k is still under way
UpdatesCompleted(k) ==
    \A f \in Flows : ~(Mid(f) /\ call[f].op = "update_respect" /\ call[f].key = k)

\* C2: when N calls update_respect(+1) were issued against a freshly ensured row
\* (respect 1), nothing else wrote the row and all N calls have completed, the
\* row's respect is 1 + N, in every interleaving of the flows' statements.
C2_NoLostUpdate ==
    \A k \in Keys : \A n \in 0..MaxCalls :
        (OnlyPlusOne(k, n) /\ UpdatesCompleted(k)) => users[k].respect = 1 + n

\* two update_respect(+1) calls overlapped on a fresh row: the second UPDATE ran
\* before the first call returned
C2_Witness ==
    \E k \in Keys : \E f, g \in Flows :
        /\ f # g /\ Done(f) /\ Done(g)
        /\ OnlyPlusOne(k, 2)
        /\ call[f].op = "update_respect" /\ call[f].key = k
        /\ call[g].op = "update_respect" /\ call[g].key = k
        /\ call[g].id \in call[f].intf

\* C3: two flows that claim the bonus of one row with the same date at the same
\* time are not both granted it.
C3_NoDoubleGrant ==
    \A f, g \in Flows :
        (/\ f # g /\ Done(f) /\ Done(g)
         /\ call[f].op = "claim_bonus" /\ call[g].op = "claim_bonus"
         /\ call[f].key = call[g].key /\ call[f].date = call[g].date
         /\ call[f].ret.status = "ok" /\ call[g].ret.status = "ok"
         /\ call[g].id \in call[f].intf)
        => ~(call[f].ret.granted /\ call[g].ret.granted)

\* the row as claim_bonus(date_str) leaves it when it grants the bonus
Granted(row, date_str) ==
    [row EXCEPT !.respect = @ + 1, !.last_bonus_date = date_str]

\* a claim_bonus call of flow f on a row that existed when the call began
ClaimOn(f) == call[f].op = "claim_bonus" /\ call[f].key \in DOMAIN call[f].pre

\* C4: calls one after the other.  A claim_bonus with a date other than the row's
\* last_bonus_date is granted and returns respect + 1; a claim_bonus with the
\* row's last_bonus_date is refused and leaves the row as it was; so of two
\* claims in a row with the same date the second (and every further one) is
\* refused.
C4_SameDayTwice ==
    /\ \A f \in Flows : (ClaimOn(f) /\ Done(f)) =>
          LET k == call[f].key
              before == call[f].pre[k]
          IN  IF before.last_bonus_date # call[f].date
              THEN /\ call[f].ret.granted
                   /\ call[f].ret.user.respect = before.respect + 1
                   /\ users[k].respect = before.respect + 1
                   /\ users[k].last_bonus_date = call[f].date
              ELSE /\ ~call[f].ret.granted
                   /\ call[f].ret.user.respect = before.respect
                   /\ users = call[f].pre
    /\ \A k \in Keys : \A i \in 1..(Len(claimLog[k]) - 1) :
          claimLog[k][i][1] = claimLog[k][i + 1][1] => ~claimLog[k][i + 1][2]

\* three claims of one row with one date: granted, refused, refused
C4_Witness ==
    \E k \in Keys :
        /\ Len(claimLog[k]) = 3
        /\ claimLog[k][1][2] /\ ~claimLog[k][2][2] /\ ~claimLog[k][3][2]
        /\ claimLog[k][1][1] = claimLog[k][2][1]
        /\ claimLog[k][2][1] = claimLog[k][3][1]
        /\ users[k].respect = 2
        /\ call[1].op = "claim_bonus" /\ Done(1)

\* C5: calls one after the other.  A claim_bonus with a date other than the
\* row's last_bonus_date (NULL included) is granted; the row is either as it
\* was or has both respect + 1 and the new date, never one without the other;
\* a claim that follows a claim with another date is granted.
C5_NewDayGranted ==
    /\ \A f \in Flows : ClaimOn(f) =>
          LET k == call[f].key
              before == call[f].pre[k]
              after == Granted(before, call[f].date)
          IN  /\ call[f].pc = "cb_update" => users[k] = before
              /\ call[f].pc = "cb_ret_true" => users[k] = after
              /\ call[f].pc = "cb_ret_false" => before.last_bonus_date = call[f].date
              /\ (Done(f) /\ before.last_bonus_date # call[f].date) =>
                    /\ call[f].ret.granted
                    /\ users[k] = after
                    /\ call[f].ret.user.respect = after.respect
    /\ \A k \in Keys : \A i \in 1..(Len(claimLog[k]) - 1) :
          claimLog[k][i][1] # claimLog[k][i + 1][1] => claimLog[k][i + 1][2]

\* a fresh row claimed with one date and then with another: both granted, 1 -> 3
C5_Witness ==
    \E k \in Keys :
        /\ Len(claimLog[k]) = 2
        /\ claimLog[k][1][1] # claimLog[k][2][1]
        /\ claimLog[k][1][2] /\ claimLog[k][2][2]
        /\ writes[k] = << <<"insert", 0>>, <<"bonus", 1>>, <<"bonus", 1>> >>
        /\ users[k].respect = 3
        /\ call[1].op = "claim_bonus" /\ Done(1)

\* at most one granted claim per date in a log of claims
OncePerDate(log) ==
    \A i, j \in 1..Len(log) :
        (i < j /\ log[i][1] = log[j][1]) => ~(log[i][2] /\ log[j][2])

\* no date comes back after a claim with another date
NoDateRecurs(log) ==
    \A i, j, l \in 1..Len(log) :
        (i < j /\ j < l /\ log[i][1] = log[l][1]) => log[j][1] = log[i][1]

\* C6 as stated: calls one after the other, dates in any order; at most one
\* claim per date is granted.
C6_OncePerDateAnyOrder ==
    \A k \in Keys : OncePerDate(claimLog[k])

\* C6 amended: calls one after the other whose dates never return to a date
\* after a claim with another date; at most one claim per date is granted.
C6_OncePerDate ==
    \A k \in Keys : NoDateRecurs(claimLog[k]) => OncePerDate(claimLog[k])

\* three claims of one row: a date twice, then another date
C6_Witness ==
    \E k \in Keys :
        /\ Len(claimLog[k]) = 3
        /\ claimLog[k][1][1] = claimLog[k][2][1]
        /\ claimLog[k][2][1] # claimLog[k][3][1]
        /\ claimLog[k][1][2] /\ claimLog[k][3][2]

\* flow f issues a new call in this step
Calls(f) == call'[f].id # call[f].id

\* flow f runs a statement in this step
Runs(f) == Calls(f) \/ call'[f].pc # call[f].pc

\* C7: ensure_user on a missing key creates the row with respect 1 and no bonus
\* date; on an existing key it sets the username and leaves respect and
\* last_bonus_date; no other row changes; with the username the row already has
\* it changes nothing; it returns without an error.
C7_EnsureUpsert ==
    [][\A f \in Flows : (Calls(f) /\ call'[f].op = "ensure_user") =>
          LET k == call'[f].key
              name == call'[f].uname
          IN  /\ call'[f].pc = "done" /\ call'[f].ret.status = "ok"
              /\ DOMAIN users' = DOMAIN users \cup {k}
              /\ \A j \in DOMAIN users \ {k} : users'[j] = users[j]
              /\ users'[k].username = name
              /\ IF k \in DOMAIN users
                 THEN /\ users'[k].respect = users[k].respect
                      /\ users'[k].last_bonus_date = users[k].last_bonus_date
                      /\ users[k].username = name => users' = users
                 ELSE /\ users'[k].respect = 1
                      /\ users'[k].last_bonus_date = NULL]_vars

\* ensure_user with a new username has run on a row with a bonus date and respect > 1
C7_Witness ==
    \E f \in Flows :
        /\ call[f].op = "ensure_user" /\ Done(f)
        /\ call[f].key \in DOMAIN call[f].pre
        /\ LET before == call[f].pre[call[f].key]
           IN  /\ before.respect > 1
               /\ before.last_bonus_date # NULL
               /\ before.username # call[f].uname
               /\ users[call[f].key] = [before EXCEPT !.username = call[f].uname]

\* C8: update_respect on an existing row with respect s returns respect
\* max(1, s + delta) and the level of that respect, also when other flows write
\* the row at the same time.
C8_ReturnsOwnUpdate ==
    \A f \in Flows :
        (call[f].op = "update_respect" /\ Done(f) /\ call[f].applied >= 1) =>
            LET s == call[f].applied + call[f].delta
                r == call[f].ret.user.respect
            IN  /\ call[f].ret.status = "ok"
                /\ r = IF s > 1 THEN s ELSE 1
                /\ call[f].ret.user.level = ((r - 1) \div 10) + 1

\* C9: a statement of get_user, update_respect or claim_bonus for a key that has
\* no row leaves the table as it is, and the call that ends on it raises
\* "User not found".
C9_NotFound ==
    [][\A f \in Flows :
          (/\ Runs(f)
           /\ call'[f].op \in {"get_user", "update_respect", "claim_bonus"}
           /\ call'[f].key \notin DOMAIN users) =>
              /\ users' = users
              /\ call'[f].pc = "done" => call'[f].ret = RetNotFound]_vars

\* update_respect and claim_bonus have failed on a missing key beside an existing row
C9_Witness ==
    \E f, g \in Flows :
        /\ call[f].op = "update_respect" /\ Done(f) /\ call[f].ret = RetNotFound
        /\ call[g].op = "claim_bonus" /\ Done(g) /\ call[g].ret = RetNotFound
        /\ call[f].key \notin DOMAIN users /\ call[g].key \notin DOMAIN users
        /\ DOMAIN users # {}

\* the rows list_mentions(chat_id, except_user_id) is to return
Others(db, chat_id, except_user_id) ==
    {k \in DOMAIN db : k[1] = chat_id /\ k[2] # except_user_id}

C10_Listed(f) ==
    LET db == call[f].pre
        ms == call[f].ret.mentions
        want == Others(db, call[f].key[1], call[f].key[2])
    IN  /\ Len(ms) = Cardinality(want)
        /\ \A k \in want : \E i \in 1..Len(ms) :
              ms[i] = [user_id |-> k[2], username |-> db[k].username]
        /\ \A i \in 1..Len(ms) :
              /\ ms[i].user_id # call[f].key[2]
              /\ <<call[f].key[1], ms[i].user_id>> \in DOMAIN db
        /\ \A i, j \in 1..Len(ms) :
              i < j => ~BytesLess(ms[j].username, ms[i].username)

C11_Level ==
    lvl.pc = "out" =>
        /\ lvl.level_a = ((lvl.a - 1) \div 10) + 1
        /\ 10 * (lvl.level_a - 1) + 1 <= lvl.a /\ lvl.a <= 10 * lvl.level_a
        /\ lvl.a <= lvl.b => lvl.level_a <= lvl.level_b
        /\ lvl.a = 1 => lvl.level_a = 1
        /\ lvl.a = 10 => lvl.level_a = 1
        /\ lvl.a = 11 => lvl.level_a = 2
        /\ lvl.a = 21 => lvl.level_a = 3
        /\ lvl.got.respect = lvl.a
        /\ lvl.got.level = ((lvl.got.respect - 1) \div 10) + 1

\* the levels of 10 and 11 have been computed: the level steps up between them
C11_Witness ==
    /\ lvl.pc = "out" /\ lvl.a = 10 /\ lvl.b = 11
    /\ lvl.level_a = 1 /\ lvl.level_b = 2 /\ lvl.got.level = 1

\* C12: build_scale(score) for score >= 1 has (score - 1) mod 10 filled and
\* 10 - filled empty segments: filled in 0..9, empty in 1..10, ten in all, and
\* score = (level - 1) * 10 + filled + 1.
C12_Scale ==
    lvl.pc = "out" =>
        LET filled == Len(lvl.scale.filled)
            empty == Len(lvl.scale.empty)
        IN  /\ filled = (lvl.a - 1) % 10
            /\ empty = 10 - filled
            /\ filled \in 0..9 /\ empty \in 1..10
            /\ filled + empty = 10
            /\ lvl.scale.level = lvl.level_a
            /\ lvl.a = (lvl.scale.level - 1) * 10 + filled + 1
            /\ \A i \in 1..filled : lvl.scale.filled[i] = "#"
            /\ \A i \in 1..empty : lvl.scale.empty[i] = "_"

\* the bar of score 20: nine filled segments, one empty, level 2
C12_Witness ==
    /\ lvl.pc = "out" /\ lvl.a = 20
    /\ Len(lvl.scale.filled) = 9 /\ Len(lvl.scale.empty) = 1 /\ lvl.scale.level = 2

\* ------------------------------------------------------------ handle_message
\* the run of flow f handled an update that has a sender and a chat to its end
Handled(f) == h[f].pc = "done" /\ h[f].from_id # 0

ActorKey(f) == <<h[f].chat_id, h[f].from_id>>
TargetKey(f) == <<h[f].chat_id, h[f].reply>>

\* the rows of db other than those of the keys in S are those of pre
SameRows(db, pre, S) ==
    /\ DOMAIN db \ S = DOMAIN pre \ S
    /\ \A k \in DOMAIN db \ S : db[k] = pre[k]

\* the respect and last_bonus_date of the rows pre has are the same in db
SameScores(db, pre) ==
    \A k \in DOMAIN pre :
        /\ k \in DOMAIN db
        /\ db[k].respect = pre[k].respect
        /\ db[k].last_bonus_date = pre[k].last_bonus_date

\* the number of level-up replies of a run
LevelUps(run) == Cardinality({i \in 1..Len(run.resp) : run.resp[i].key = "level_up"})

\* C13 as stated: for every update with a sender and a chat, of any chat type,
\* ensure_user of the sender is the first statement, and once the update is
\* handled the sender's row exists with the name seen in the update.
C13_EnsureActorAnyChat ==
    \A f \in Flows :
        Handled(f) =>
            /\ h[f].ensured = SqlUpsert(h[f].pre, ActorKey(f), h[f].seen)
            /\ ActorKey(f) \in DOMAIN users
            /\ users[ActorKey(f)].username = h[f].seen

\* C13 amended: for every update from a group or supergroup chat, whatever its
\* text, ensure_user of the sender is the first statement and once the update
\* is handled the sender's row exists with the name seen in the update; an
\* update from any other chat type leaves the table as it was and gets no reply.
C13_EnsureActorInGroups ==
    \A f \in Flows :
        Handled(f) =>
            IF h[f].chat_type \in GroupChats
            THEN /\ h[f].ensured = SqlUpsert(h[f].pre, ActorKey(f), h[f].seen)
                 /\ ActorKey(f) \in DOMAIN users
                 /\ users[ActorKey(f)].username = h[f].seen
            ELSE users = h[f].pre /\ h[f].resp = <<>>

\* a supergroup update with a text that is no command was handled: the sender's
\* stored name was another one and is now the name seen
C13_Witness ==
    \E f \in Flows :
        /\ Handled(f) /\ h[f].chat_type = "supergroup"
        /\ Command(h[f].text) = "none" /\ h[f].text # <<>>
        /\ ActorKey(f) \in DOMAIN h[f].pre
        /\ h[f].pre[ActorKey(f)].username # h[f].seen
        /\ users[ActorKey(f)].username = h[f].seen

\* the run of flow f handled "+" or "-" (the text stripped) sent in reply to a
\* message of another member
RespectCmd(f) ==
    /\ Handled(f)
    /\ Strip(h[f].raw) \in {TokPlus, TokMinus}
    /\ h[f].reply \notin {0, h[f].from_id}

\* what C14 says of such a run: one UPDATE of respect, on the target's row; the
\* target's row exists with max(1, s + 1) or max(1, s - 1), s its respect when
\* the update arrived (1 when the command creates the row); the respect of
\* every other row is unchanged, no row but the sender's and the target's is
\* new; the reply is respect_given for "+" and respect_taken for "-"
AdjustsTarget(f) ==
    LET T == TargetKey(f)
        plus == Strip(h[f].raw) = TokPlus
        s == IF T \in DOMAIN h[f].pre THEN h[f].pre[T].respect ELSE 1
        to == IF plus THEN s + 1 ELSE IF s - 1 > 1 THEN s - 1 ELSE 1
    IN  /\ h[f].nmut = 1
        /\ T \in DOMAIN users
        /\ h[f].before = s /\ h[f].after = to
        /\ users[T].respect = to
        /\ DOMAIN users \subseteq DOMAIN h[f].pre \cup {T, ActorKey(f)}
        /\ \A k \in DOMAIN h[f].pre \ {T} :
              /\ k \in DOMAIN users
              /\ users[k].respect = h[f].pre[k].respect
        /\ ActorKey(f) \notin DOMAIN h[f].pre => users[ActorKey(f)].respect = 1
        /\ h[f].resp # <<>>
        /\ h[f].resp[1].key = (IF plus THEN "respect_given" ELSE "respect_taken")

\* C14 as stated: every "+" or "-" sent in reply to a message of another member
\* applies exactly one AdjustScore, to the target, and is answered with respect
\* given or respect taken.
C14_AdjustTargetAnyChat == \A f \in Flows : RespectCmd(f) => AdjustsTarget(f)

\* C14 amended: a "+" or "-" sent in a group or supergroup chat in reply to a
\* message of another member applies exactly one AdjustScore, to the target:
\* the target's row exists with max(1, s + 1) or max(1, s - 1), the other rows
\* keep their respect, and the reply is respect given or respect taken.
C14_AdjustTarget ==
    \A f \in Flows :
        RespectCmd(f) /\ h[f].chat_type \in GroupChats => AdjustsTarget(f)

\* a "-" on a target with respect 1 was handled: the respect stayed 1 and the
\* reply is respect_taken
C14_Witness ==
    \E f \in Flows :
        /\ RespectCmd(f) /\ h[f].chat_type \in GroupChats
        /\ h[f].text = TokMinus
        /\ TargetKey(f) \in DOMAIN h[f].pre
        /\ h[f].pre[TargetKey(f)].respect = 1
        /\ users[TargetKey(f)].respect = 1
        /\ h[f].resp[1].key = "respect_taken"

\* C15: for "+" and "-" the level-up reply is sent if and only if the level of
\* the target's respect right after the command's own UPDATE is above the level
\* of the respect that UPDATE was applied to, also when the statements of other
\* commands on the same target run in between; "-" never sends it, "+" sends
\* it exactly when the respect moves from 10k to 10k + 1.
C15_LevelUpFromActualScore ==
    \A f \in Flows :
        RespectCmd(f) /\ h[f].nmut = 1 =>
            LET up == LevelUps(h[f]) > 0
            IN  /\ up <=> ((h[f].after - 1) \div 10) > ((h[f].before - 1) \div 10)
                /\ h[f].text = TokMinus => ~up
                /\ h[f].text = TokPlus => (up <=> h[f].before % 10 = 0)

\* the run of flow f handled ".bonus" (the text stripped)
BonusCmd(f) == Handled(f) /\ Strip(h[f].raw) = TokBonus

\* C16: for ".bonus", taking the previous level from the reported respect - 1
\* is the same as taking the respect before and after the grant: the level-up
\* reply is sent if and only if claim_bonus granted and the level of the
\* respect right after its UPDATE is above the level of the respect right
\* before; when claim_bonus does not grant, the only reply is bonus_cooldown,
\* the run made no UPDATE of respect and no level-up reply is sent.
C16_BonusLevelUp ==
    \A f \in Flows :
        BonusCmd(f) =>
            LET up == LevelUps(h[f]) > 0
            IN  /\ up <=> /\ h[f].claimed
                          /\ ((h[f].after - 1) \div 10) > ((h[f].before - 1) \div 10)
                /\ h[f].claimed =>
                      /\ h[f].nmut = 1
                      /\ h[f].after = h[f].before + 1
                      /\ h[f].resp[1].key = "bonus_claimed"
                /\ h[f].today # NULL /\ ~h[f].claimed =>
                      /\ Len(h[f].resp) = 1
                      /\ h[f].resp[1].key = "bonus_cooldown"
                      /\ h[f].nmut = 0
                      /\ ~up

\* the run changed no row but the sender's, which it at most created or renamed:
\* no respect and no last_bonus_date changed, no other row is new
OnlyEnsuredActor(f) ==
    /\ h[f].nmut = 0
    /\ SameScores(users, h[f].pre)
    /\ SameRows(users, h[f].pre, {ActorKey(f)})
    /\ DOMAIN users \subseteq DOMAIN h[f].pre \cup {ActorKey(f)}

\* the run of flow f handled "+" or "-" (the text stripped) that replies to nothing
NoReplyCmd(f) ==
    /\ Handled(f)
    /\ Strip(h[f].raw) \in {TokPlus, TokMinus}
    /\ h[f].reply = 0

\* C17 as stated: every "+" or "-" without a reply target gets the reply
\* reply_required and changes nothing but what ensure_user of the sender does.
C17_ReplyRequiredAnyChat ==
    \A f \in Flows :
        NoReplyCmd(f) =>
            /\ Len(h[f].resp) = 1 /\ h[f].resp[1].key = "reply_required"
            /\ OnlyEnsuredActor(f)

\* C17 amended: a "+" or "-" without a reply target sent in a group or
\* supergroup chat gets the reply reply_required and changes nothing but what
\* ensure_user of the sender does: no respect, no last_bonus_date, no other row.
C17_ReplyRequired ==
    \A f \in Flows :
        NoReplyCmd(f) /\ h[f].chat_type \in GroupChats =>
            /\ Len(h[f].resp) = 1 /\ h[f].resp[1].key = "reply_required"
            /\ OnlyEnsuredActor(f)

\* " +\n" without a reply target was handled for a sender not stored before:
\* reply_required, and the sender's row is the only new one
C17_Witness ==
    \E f \in Flows :
        /\ NoReplyCmd(f) /\ h[f].chat_type \in GroupChats
        /\ h[f].raw = <<32, 43, 10>>
        /\ h[f].resp[1].key = "reply_required"
        /\ ActorKey(f) \notin DOMAIN h[f].pre
        /\ DOMAIN users = DOMAIN h[f].pre \cup {ActorKey(f)}

\* the run of flow f handled "+" or "-" (the text stripped) that replies to a
\* message of its own sender
SelfCmd(f) ==
    /\ Handled(f)
    /\ Strip(h[f].raw) \in {TokPlus, TokMinus}
    /\ h[f].reply = h[f].from_id

\* what C18 says of such a run: the reply is respect_self, the sender's row
\* exists, no UPDATE of respect was made, respect and last_bonus_date of the
\* sender (and of every row) are what they were, no level-up reply
RejectsSelf(f) ==
    /\ Len(h[f].resp) = 1 /\ h[f].resp[1].key = "respect_self"
    /\ ActorKey(f) \in DOMAIN users
    /\ OnlyEnsuredActor(f)
    /\ ActorKey(f) \notin DOMAIN h[f].pre =>
          /\ users[ActorKey(f)].respect = 1
          /\ users[ActorKey(f)].last_bonus_date = NULL
    /\ LevelUps(h[f]) = 0

\* C18 as stated: every "+" or "-" that replies to the sender's own message is
\* rejected with respect_self before any respect is changed.
C18_SelfTargetAnyChat == \A f \in Flows : SelfCmd(f) => RejectsSelf(f)

\* C18 amended: a "+" or "-" sent in a group or supergroup chat in reply to the
\* sender's own message is rejected with respect_self before any respect is
\* changed: the sender's row exists, its respect and last_bonus_date are what
\* they were, no AdjustScore, no level-up reply.
C18_SelfTarget ==
    \A f \in Flows : SelfCmd(f) /\ h[f].chat_type \in GroupChats => RejectsSelf(f)

\* a "+" on the sender's own message was rejected: respect 10 stayed 10
C18_Witness ==
    \E f \in Flows :
        /\ SelfCmd(f) /\ h[f].chat_type \in GroupChats
        /\ h[f].text = TokPlus
        /\ h[f].resp[1].key = "respect_self"
        /\ ActorKey(f) \in DOMAIN h[f].pre
        /\ h[f].pre[ActorKey(f)].respect = 10
        /\ users[ActorKey(f)].respect = 10
        /\ users[ActorKey(f)].last_bonus_date = "d1"

\* C19: a text is a command only if, stripped of surrounding whitespace, it is
\* exactly ".all", ".bonus", "+" or "-": for every other text (empty, a token
\* with something before or after it) there is no reply and nothing changes
\* but what ensure_user of the sender does; in a group chat a token with
\* whitespace around it is answered like the token.
C19_ExactTokens ==
    \A f \in Flows :
        Handled(f) =>
            IF Strip(h[f].raw) \notin {TokAll, TokBonus, TokPlus, TokMinus}
            THEN h[f].resp = <<>> /\ OnlyEnsuredActor(f)
            ELSE h[f].chat_type \in GroupChats => h[f].resp # <<>>

\* "+1" sent in reply-less form in a group was handled: no reply, and the sender,
\* not stored before, is the only new row
C19_Witness ==
    \E f \in Flows :
        /\ Handled(f) /\ h[f].chat_type = "group"
        /\ h[f].raw = <<43, 49>>
        /\ h[f].resp = <<>>
        /\ ActorKey(f) \notin DOMAIN h[f].pre
        /\ ActorKey(f) \in DOMAIN users

\* C20: a command sends at most one level-up reply, and only a command that
\* made exactly one UPDATE of respect sends one (a granted ".bonus", or a "+"
\* or "-" on another member's message); ".all", a ".bonus" in cooldown, a
\* rejected "+" or "-" and a text that is no command send none.
C20_OneLevelUp ==
    \A f \in Flows :
        Handled(f) =>
            /\ LevelUps(h[f]) <= 1
            /\ LevelUps(h[f]) = 1 =>
                  /\ h[f].nmut = 1
                  /\ \/ Strip(h[f].raw) = TokBonus /\ h[f].claimed
                     \/ /\ Strip(h[f].raw) \in {TokPlus, TokMinus}
                        /\ h[f].reply \notin {0, h[f].from_id}
            /\ h[f].nmut # 1 => LevelUps(h[f]) = 0
            /\ Strip(h[f].raw) \notin {TokBonus, TokPlus, TokMinus} => LevelUps(h[f]) = 0
            /\ Strip(h[f].raw) = TokBonus /\ ~h[f].claimed => LevelUps(h[f]) = 0
            /\ Strip(h[f].raw) \in {TokPlus, TokMinus} /\ h[f].reply \in {0, h[f].from_id}
                  => LevelUps(h[f]) = 0

\* a "+" that took another member from 10 to 11 sent one level-up reply
C20_Witness ==
    \E f \in Flows :
        /\ RespectCmd(f) /\ h[f].text = TokPlus
        /\ h[f].before = 10 /\ h[f].after = 11 /\ h[f].nmut = 1
        /\ LevelUps(h[f]) = 1
        /\ h[f].resp[2].key = "level_up" /\ h[f].resp[2].level = 2

\* ------------------------------------------------------------ linearizability
\* no call is under way
Quiescent == \A f \in Flows : ~Mid(f)

\* the calls on key k that have returned
ReturnedOn(k) ==
    {hist[i].id : i \in {j \in 1..Len(hist) : hist[j].ev = "ret" /\ hist[j].key = k}}

InvAt(id) == CHOOSE i \in 1..Len(hist) : hist[i].ev = "inv" /\ hist[i].id = id
RetAt(id) == CHOOSE i \in 1..Len(hist) : hist[i].ev = "ret" /\ hist[i].id = id

\* the orders of the calls in S that keep every call that returned before
\* another was entered ahead of it
RealTimeOrders(S) ==
    {o \in [1..Cardinality(S) -> S] :
        /\ \A i, j \in 1..Cardinality(S) : i # j => o[i] # o[j]
        /\ \A i, j \in 1..Cardinality(S) : RetAt(o[j]) < InvAt(o[i]) => j < i}

\* the call of entry e run alone on table db: the table it leaves and what it
\* returns
Alone(db, e) ==
    LET k == e.key
    IN  IF e.op = "ensure_user"
        THEN [db |-> SqlUpsert(db, k, e.uname), ret |-> RetNone]
        ELSE IF k \notin DOMAIN db
        THEN [db |-> db, ret |-> RetNotFound]
        ELSE IF e.op = "update_respect"
        THEN LET to == SqlUpdateRespect(db, k, e.delta)
             IN  [db |-> to, ret |-> get_user(to, k)]
        ELSE IF db[k].last_bonus_date = e.date
        THEN [db |-> db, ret |-> RetClaim(FALSE, get_user(db, k).user)]
        ELSE LET to == SqlClaimBonus(db, k, e.date)
             IN  [db |-> to, ret |-> RetClaim(TRUE, get_user(to, k).user)]

\* the calls o[i], o[i+1], ... run one after the other from table db return what
\* they returned in hist and leave row k as it is in users
RECURSIVE Replays(_, _, _, _)
Replays(db, o, i, k) ==
    IF i > Len(o)
    THEN /\ (k \in DOMAIN db) = (k \in DOMAIN users)
         /\ k \in DOMAIN db => db[k] = users[k]
    ELSE LET e == hist[RetAt(o[i])]
             r == Alone(db, e)
         IN  r.ret = e.ret /\ Replays(r.db, o, i + 1, k)

\* C21: per key, ensure_user, update_respect and claim_bonus are linearizable:
\* whenever all calls have returned, the row of the key and what each call
\* returned are those of the same calls run one after the other, in an order
\* that keeps a call that returned before another was entered ahead of it.
C21_Linearizable ==
    Quiescent =>
        \A k \in ConcKeys :
            \E o \in RealTimeOrders(ReturnedOn(k)) : Replays(<< >>, o, 1, k)

\* ------------------------------------------------------------ frame of the calls
\* C22: rows are independent per (chat_id, user_id) and never deleted: a
\* statement of a call on key k leaves every other row as it is (the same
\* user_id in another chat too) and removes no row; get_user and list_mentions
\* write nothing; update_respect changes neither username nor last_bonus_date
\* of its row, claim_bonus does not change username, and neither creates a row.
C22_IndependentRows ==
    [][\A f \in Flows :
          Runs(f) =>
              LET k == call'[f].key
                  op == call'[f].op
              IN  /\ DOMAIN users \subseteq DOMAIN users'
                  /\ \A j \in DOMAIN users' \ {k} : j \in DOMAIN users /\ users'[j] = users[j]
                  /\ op \in {"get_user", "list_mentions"} => users' = users
                  /\ op \in {"update_respect", "claim_bonus"} =>
                        /\ DOMAIN users' = DOMAIN users
                        /\ k \in DOMAIN users => users'[k].username = users[k].username
                  /\ op = "update_respect" /\ k \in DOMAIN users =>
                        users'[k].last_bonus_date = users[k].last_bonus_date]_vars

\* update_respect(+12) on member 1 of chat 1 has returned 13, and the row of
\* member 1 in chat 2 still has respect 1
C22_Witness ==
    /\ Done(1) /\ call[1].op = "update_respect" /\ call[1].key = <<1, 1>>
    /\ call[1].ret.status = "ok" /\ call[1].ret.user.respect = 13
    /\ <<2, 1>> \in DOMAIN users /\ users[<<2, 1>>].respect = 1
    /\ users[<<1, 1>>].respect = 13

\* ------------------------------------------------------------ MonitorState
\* the last n elements of a sequence
LastOf(q, n) == SubSeq(q, Len(q) - n + 1, Len(q))

Min(a, b) == IF a < b THEN a ELSE b

\* a step of set_error
SetErrorStep == thr["poll"].pc \in {"err_lock", "err_set"} /\ thr'["poll"] # thr["poll"]

\* history is the last min(n, history_size) of the n points appended so far
BoundedHistory ==
    /\ Len(mon.history) <= mon.maxlen
    /\ mon.history = LastOf(mlog.arrived, Min(Len(mlog.arrived), mon.maxlen))

\* C23: history never holds more than history_size points and is always the
\* most recent min(n, history_size) of the n points appended, in arrival
\* order (appending to a full history drops the oldest point), and no step of
\* set_error changes history or last_status
C23_BoundedHistory ==
    /\ []BoundedHistory
    /\ [][SetErrorStep => /\ mon'.history = mon.history
                          /\ mon'.last_status = mon.last_status]_vars

\* a point was appended to a full history, and a set_error has been made
\* since
C23_Witness ==
    /\ Len(mlog.arrived) > mon.maxlen
    /\ Len(mon.history) = mon.maxlen
    /\ mon.last_error.kind = "error"
    /\ mon.last_error.n > mon.last_status.n
    /\ ~mon.last_status.none

\* what snapshot returns of a MonitorState that no other thread is changing
View(m) ==
    [taken |-> TRUE, last_error |-> m.last_error,
     latest |-> IF Truthy(m.last_status) THEN m.last_status
                ELSE [NoStatus EXCEPT !.none = FALSE],
     history |-> m.history]

\* the poller is between two statements of the locked block of update
InsideUpdate == thr["poll"].pc \in {"upd_status", "upd_error", "upd_append"}

\* the error texts that the update of poll n replaced by ""
ClearedBy(n) ==
    {mlog.cleared[i][2] : i \in {j \in DOMAIN mlog.cleared : mlog.cleared[j][1] = n}}
        \ {NoError}

\* a returned snapshot with a non-empty latest: its history ends with the
\* point of that status, and its last_error is none that this poll cleared
Consistent(snap) ==
    Truthy(snap.latest) =>
        /\ snap.history # <<>>
        /\ snap.history[Len(snap.history)] = PointOf(snap.latest)
        /\ snap.last_error \notin ClearedBy(snap.latest.n)

\* C24: a snapshot that runs while the poller updates sees the state between
\* whole operations: what it returns is the state at its return, never a state
\* inside update; with a non-empty latest status its history ends with the
\* point made from that status and its last_error is not the text that poll
\* cleared; update leaves last_error empty, and only set_error fills it again
C24_AtomicSnapshot ==
    /\ [](\A t \in ReqThreads : thr[t].snap.taken => Consistent(thr[t].snap))
    /\ [][\A t \in ReqThreads :
            thr'[t].snap.taken /\ thr'[t] # thr[t] =>
                thr'[t].snap = View(mon') /\ ~InsideUpdate]_vars
    /\ [][/\ thr["poll"].pc = "upd_append" /\ thr'["poll"].pc = "idle" =>
                mon'.last_error = NoError
          /\ mon.last_error = NoError /\ mon'.last_error # NoError =>
                thr["poll"].pc = "err_set"]_vars

\* a snapshot returned the status of a poll that cleared an error and a full
\* history, while the poller waits for the lock with the next result
C24_Witness ==
    \E t \in ReqThreads :
        /\ thr[t].snap.taken
        /\ Truthy(thr[t].snap.latest)
        /\ \E e \in ClearedBy(thr[t].snap.latest.n) : e.kind = "error"
        /\ Len(thr[t].snap.history) = mon.maxlen
        /\ thr["poll"].pc \in {"upd_lock", "err_lock"}
        /\ thr["poll"].status.n + thr["poll"].error_message.n > thr[t].snap.latest.n

====
